---------------------------- MODULE Spec2Model ----------------------------
(***************************************************************************)
(* Model of the Instagram webhook route (src/src/app/api/webhook/route.ts): *)
(* the GET verification handler, the POST event handler and the            *)
(* sendPrivateReply helper.                                                 *)
(*                                                                         *)
(* JavaScript values are tagged records [t |-> <type>, v |-> <payload>];   *)
(* a string's payload is its sequence of characters.  A property that a    *)
(* JSON object does not carry reads as Undefined, as in JavaScript.        *)
(* A handler runs atomically from one await to the next.                   *)
(***************************************************************************)
EXTENDS Integers, Sequences, FiniteSets, TLC

\* ------------------------------------------------------------------ bounds
\* at most MaxEntries entries in a batch
MaxEntries == 2
\* at most MaxEvents change events in a batch, over all its entries
MaxEvents == 2
\* at most MaxGets GET requests in a run
MaxGets == 3
\* the notifier delivers a batch at most MaxDeliveries times
MaxDeliveries == 2

\* ------------------------------------------------------- JavaScript values
Undefined == [t |-> "undefined"]
JsonNull == [t |-> "null"]
Num(n) == [t |-> "number", v |-> n]
Str(s) == [t |-> "string", v |-> s]
Arr(s) == [t |-> "array", v |-> s]
Obj(r) == [t |-> "object", v |-> r]

\* x is null or undefined: reading a property of x throws a TypeError
Nullish(x) == x.t \in {"undefined", "null"}

\* JavaScript truthiness (!x is ~Truthy(x))
Truthy(x) ==
    CASE x.t \in {"undefined", "null"} -> FALSE
      [] x.t = "number" -> x.v # 0
      [] x.t = "string" -> Len(x.v) > 0
      [] OTHER -> TRUE

\* x.k for a non-nullish x
Prop(x, k) == IF x.t = "object" /\ k \in DOMAIN x.v THEN x.v[k] ELSE Undefined

\* a === b on primitives
StrictEq(a, b) == a.t = b.t /\ (a.t \in {"undefined", "null"} \/ a.v = b.v)

\* for (const e of x) is defined: arrays and strings are iterable
Iterable(x) == x.t \in {"array", "string"}

\* the sequence for-of walks
Elements(x) == IF x.t = "array" THEN x.v ELSE [k \in 1..Len(x.v) |-> Str(<<x.v[k]>>)]

\* ----------------------------------------------------------------- strings
UpperCase == <<"A","B","C","D","E","F","G","H","I","J","K","L","M",
               "N","O","P","Q","R","S","T","U","V","W","X","Y","Z">>
LowerCase == <<"a","b","c","d","e","f","g","h","i","j","k","l","m",
               "n","o","p","q","r","s","t","u","v","w","x","y","z">>

\* the lower-case letter of each upper-case letter
LowerOf ==
    [c \in {UpperCase[k] : k \in 1..Len(UpperCase)} |->
        LowerCase[CHOOSE k \in 1..Len(UpperCase) : UpperCase[k] = c]]

LowerChar(c) == IF c \in DOMAIN LowerOf THEN LowerOf[c] ELSE c

\* String.prototype.toLowerCase
toLowerCase(s) == [k \in 1..Len(s) |-> LowerChar(s[k])]

\* String.prototype.includes
includes(s, w) ==
    \E k \in 0..(Len(s) - Len(w)) : \A m \in 1..Len(w) : s[k + m] = w[m]

\* 'roadmap'
KEYWORD == <<"r","o","a","d","m","a","p">>
\* 'comments'
COMMENTS == <<"c","o","m","m","e","n","t","s">>
\* 'instagram'
INSTAGRAM == <<"i","n","s","t","a","g","r","a","m">>
\* 'subscribe'
SUBSCRIBE == <<"s","u","b","s","c","r","i","b","e">>
\* 'Forbidden'
FORBIDDEN == <<"F","o","r","b","i","d","d","e","n">>
\* 'Server Config Error'
SERVER_CONFIG_ERROR == <<"S","e","r","v","e","r"," ","C","o","n","f","i","g"," ",
                         "E","r","r","o","r">>
\* 'EVENT_RECEIVED'
EVENT_RECEIVED == <<"E","V","E","N","T","_","R","E","C","E","I","V","E","D">>
\* 'Not Found'
NOT_FOUND == <<"N","o","t"," ","F","o","u","n","d">>
\* 'Internal Server Error Handled'
ERROR_HANDLED == <<"I","n","t","e","r","n","a","l"," ","S","e","r","v","e","r"," ",
                   "E","r","r","o","r"," ","H","a","n","d","l","e","d">>
\* the fixed message text of the private reply
REPLY_TEXT == "Hey! Here is the link to the roadmap you asked for: https://ontheorbit.com/roadmap"

\* new NextResponse(body, { status })
NextResponse(body, status) == [status |-> status, body |-> body]


\* ------------------------------------------------- process configuration
\* process.env.META_VERIFY_TOKEN / META_PAGE_ACCESS_TOKEN: unset, set to the
\* empty string, or set
EnvValues(s) == {Undefined, Str(<<>>), Str(s)}

\* ------------------------------------------------------ request payloads
\* "road map": a text without the keyword
TEXT_PLAIN == Str(<<"r","o","a","d"," ","m","a","p">>)
\* "Roadmap?": a text with the keyword, in another casing
TEXT_KEYWORD == Str(<<"R","o","a","d","m","a","p","?">>)

\* change.value.text: absent, not a string, without and with the keyword
TextValues == {Undefined, Num(5), TEXT_PLAIN, TEXT_KEYWORD}

\* change.value.comment_id: absent, or one of two comments
CommentIdValues == {Undefined, Str(<<"1">>), Str(<<"2">>)}

\* change.value of a 'comments' change: absent, or an object with every text,
\* without a comment_id and for comment 1, or with the keyword for comment 2
CommentValues ==
    {Undefined} \cup
    {Obj([text |-> x, comment_id |-> c]) : x \in TextValues, c \in {Undefined, Str(<<"1">>)}} \cup
    {Obj([text |-> TEXT_KEYWORD, comment_id |-> c]) : c \in CommentIdValues}

\* change.value of a change of another field: absent, or that of a comment with the keyword
OtherValues == {Undefined, Obj([text |-> TEXT_KEYWORD, comment_id |-> Str(<<"1">>)])}

\* 'mentions'
MENTIONS == <<"m","e","n","t","i","o","n","s">>

\* the elements of entry.changes: null, or a change object
Changes ==
    {JsonNull} \cup
    {Obj([field |-> Str(COMMENTS), value |-> w]) : w \in CommentValues} \cup
    {Obj([field |-> Str(MENTIONS), value |-> w]) : w \in OtherValues}

\* Changes in some fixed order
RECURSIVE SetToSeq(_)
SetToSeq(S) ==
    IF S = {} THEN <<>> ELSE LET x == CHOOSE y \in S : TRUE IN <<x>> \o SetToSeq(S \ {x})
ChangeSeq == SetToSeq(Changes)

\* the elements of body.entry without change events: null, an entry without
\* changes, an entry whose changes is not iterable
EmptyEntries == <<JsonNull, Obj([changes |-> Undefined]), Obj([changes |-> Num(7)])>>

\* A batch is enumerated by its layout and its events.  The layout has one number
\* per entry: n > 0 for an entry with n change events, -k for the k-th of
\* EmptyEntries.  The events are the indices in ChangeSeq of the change events of
\* the batch, in document order.
RECURSIVE EventCount(_)
EventCount(layout) ==
    IF layout = <<>>
    THEN 0
    ELSE (IF Head(layout) > 0 THEN Head(layout) ELSE 0) + EventCount(Tail(layout))

EntryKinds == {-k : k \in 1..Len(EmptyEntries)} \cup 1..MaxEvents

Layouts ==
    UNION {{layout \in [1..n -> EntryKinds] : EventCount(layout) <= MaxEvents} :
           n \in 0..MaxEntries}

\* entry i of the batch with this layout and these events
EntryOf(layout, events, i) ==
    IF layout[i] < 0
    THEN EmptyEntries[-layout[i]]
    ELSE LET before == EventCount(SubSeq(layout, 1, i - 1))
         IN  Obj([changes |-> Arr([k \in 1..layout[i] |-> ChangeSeq[events[before + k]]])])

EntryArray(layout, events) == Arr([i \in 1..Len(layout) |-> EntryOf(layout, events, i)])

\* body.object
ObjectValues == {Str(INSTAGRAM), Str(<<"p","a","g","e">>)}

\* a request body that is not JSON: req.json() rejects
Malformed == [t |-> "malformed"]

\* the request bodies without an array of entries: not JSON, null, a number, an
\* object without object and entry, and objects whose entry is absent, null or
\* not iterable
PlainBodies ==
    {Malformed, JsonNull, Num(7), Obj([entry |-> Undefined])} \cup
    {Obj([object |-> o, entry |-> e]) : o \in ObjectValues, e \in {Undefined, JsonNull, Num(7)}}

\* the request body with object o and these entries
BatchBody(o, layout, events) == Obj([object |-> o, entry |-> EntryArray(layout, events)])

\* ------------------------------------------------------------------- state
\* the request slots of the webhook route: each holds one POST request
NumHandlers == 2
Handlers == 1..NumHandlers

VARIABLES
    VERIFY_TOKEN,       \* process.env.META_VERIFY_TOKEN, read at module load
    PAGE_ACCESS_TOKEN,  \* process.env.META_PAGE_ACCESS_TOKEN, read at module load
    getReq,             \* the last GET request: its query parameters
    getResp,            \* the response GET returned to it
    getFirst,           \* the first GET request of the run and the response to it
    getCount,           \* the number of GET requests answered
    deliveries,         \* per slot, how often POST was called with its request
    pc,                 \* per POST handler: the await it is suspended at
    request,            \* per POST handler: the request body as received
    body,               \* per POST handler: what req.json() resolved to
    cursor,             \* per POST handler: <<entry, change>> being processed
    sent,               \* per POST handler: the outbound requests of sendPrivateReply
    outcomes,           \* per POST handler: how each outbound call settled and was logged
    response            \* per POST handler: the response returned

vars == <<VERIFY_TOKEN, PAGE_ACCESS_TOKEN, getReq, getResp, getFirst, getCount,
          pc, request, body, cursor, sent, outcomes, response, deliveries>>
config == <<VERIFY_TOKEN, PAGE_ACCESS_TOKEN>>
getVars == <<getReq, getResp, getFirst, getCount>>
postVars == <<pc, request, body, cursor, sent, outcomes, response, deliveries>>

None == [t |-> "none"]

\* the configured values
SECRET == <<"s","3","c","r","e","t">>
ACCESS == <<"E","A","A","G">>

Init ==
    /\ VERIFY_TOKEN \in EnvValues(SECRET)
    /\ PAGE_ACCESS_TOKEN \in EnvValues(ACCESS)
    /\ getReq = None
    /\ getResp = None
    /\ getFirst = None
    /\ getCount = 0
    /\ pc = [h \in Handlers |-> "idle"]
    /\ request = [h \in Handlers |-> None]
    /\ body = [h \in Handlers |-> None]
    /\ cursor = [h \in Handlers |-> <<0, 0>>]
    /\ sent = [h \in Handlers |-> <<>>]
    /\ outcomes = [h \in Handlers |-> <<>>]
    /\ response = [h \in Handlers |-> None]
    /\ deliveries = [h \in Handlers |-> 0]

\* ------------------------------------------------------------- GET handler
\* searchParams.get(name): null when the parameter is missing
ModeValues == {JsonNull, Str(SUBSCRIBE), Str(<<"u","n","s","u","b">>)}
TokenValues == {JsonNull, Str(<<>>), Str(SECRET), Str(<<"w","r","o","n","g">>)}
ChallengeValues == {JsonNull, Str(<<"1","1","5","8">>), Str(FORBIDDEN)}

\* a == b: null and undefined are loosely equal
LooseEq(a, b) == StrictEq(a, b) \/ (Nullish(a) /\ Nullish(b))

\* Verified without the test of the mode
VerifiedTokenOnly(mode, token) == StrictEq(token, VERIFY_TOKEN)

\* Verified with token == VERIFY_TOKEN
VerifiedLoosely(mode, token) ==
    StrictEq(mode, Str(SUBSCRIBE)) /\ LooseEq(token, VERIFY_TOKEN)

\* mode === 'subscribe' && token === VERIFY_TOKEN
Verified(mode, token) == StrictEq(mode, Str(SUBSCRIBE)) /\ StrictEq(token, VERIFY_TOKEN)

\* GetResponse of a route that refuses verification while a POST is in progress
GetResponseUnlessBusy(mode, token, challenge) ==
    IF Verified(mode, token) /\ \A h \in Handlers : pc[h] \in {"idle", "done"}
    THEN NextResponse(challenge, 200)
    ELSE NextResponse(Str(FORBIDDEN), 403)

GetResponse(mode, token, challenge) ==
    IF Verified(mode, token)
    THEN NextResponse(challenge, 200)
    ELSE NextResponse(Str(FORBIDDEN), 403)

GET(mode, token, challenge) ==
    /\ getCount < MaxGets
    /\ getCount' = getCount + 1
    /\ getReq' = [mode |-> mode, token |-> token, challenge |-> challenge]
    /\ getResp' = GetResponse(mode, token, challenge)
    /\ getFirst' = IF getFirst = None
                   THEN [req |-> getReq', resp |-> getResp']
                   ELSE getFirst
    /\ UNCHANGED <<config, postVars>>

\* ------------------------------------------------------------ POST handler
\* CredentialMissing as PAGE_ACCESS_TOKEN === null
CredentialIsNull == PAGE_ACCESS_TOKEN = JsonNull

\* !PAGE_ACCESS_TOKEN
CredentialMissing == ~Truthy(PAGE_ACCESS_TOKEN)

\* the outbound request sendPrivateReply builds for commentId; at is the position
\* of the change event it answers
ReplyRequest(commentId, at) ==
    [at |-> at,
     access_token |-> PAGE_ACCESS_TOKEN,
     recipient |-> commentId,
     message |-> REPLY_TEXT]

\* body.entry || []
EntriesOf(b) == IF Truthy(Prop(b, "entry")) THEN Prop(b, "entry") ELSE Arr(<<>>)

\* ChangesOf without the default
ChangesOfAsIs(entry) == Prop(entry, "changes")

\* entry.changes ?? []
ChangesOf(entry) ==
    IF Nullish(Prop(entry, "changes")) THEN Arr(<<>>) ELSE Prop(entry, "changes")

\* KeywordFound without toLowerCase
KeywordFoundAsWritten(rawText) == includes(rawText.v, KEYWORD)

\* normalizedText.includes('roadmap'), normalizedText = rawText.toLowerCase()
KeywordFound(rawText) == includes(toLowerCase(rawText.v), KEYWORD)

Throw == [kind |-> "throw"]
End == [kind |-> "end"]
Send(i, j, commentId) == [kind |-> "send", at |-> <<i, j>>, commentId |-> commentId]

\* ProcessChange without the test of text and comment_id
ProcessChangeUnguarded(change, i, j) ==
    IF Nullish(change)
    THEN Throw
    ELSE IF ~StrictEq(Prop(change, "field"), Str(COMMENTS))
    THEN [kind |-> "next"]
    ELSE LET value == Prop(change, "value") IN
         IF Nullish(value)
         THEN Throw
         ELSE LET rawText == Prop(value, "text")
                  commentId == Prop(value, "comment_id")
              IN  IF rawText.t # "string"
                  THEN Throw
                  ELSE IF KeywordFound(rawText)
                  THEN Send(i, j, commentId)
                  ELSE [kind |-> "next"]

\* ProcessChange without the test of the field
ProcessChangeAnyField(change, i, j) ==
    IF Nullish(change)
    THEN Throw
    ELSE LET value == Prop(change, "value") IN
         IF Nullish(value)
         THEN Throw
         ELSE LET rawText == Prop(value, "text")
                  commentId == Prop(value, "comment_id")
              IN  IF ~Truthy(rawText) \/ ~Truthy(commentId)
                  THEN [kind |-> "next"]
                  ELSE IF rawText.t # "string"
                  THEN Throw
                  ELSE IF KeywordFound(rawText)
                  THEN Send(i, j, commentId)
                  ELSE [kind |-> "next"]

\* ProcessChange without the test of the keyword
ProcessChangeAnyText(change, i, j) ==
    IF Nullish(change)
    THEN Throw
    ELSE IF ~StrictEq(Prop(change, "field"), Str(COMMENTS))
    THEN [kind |-> "next"]
    ELSE LET value == Prop(change, "value") IN
         IF Nullish(value)
         THEN Throw
         ELSE LET rawText == Prop(value, "text")
                  commentId == Prop(value, "comment_id")
              IN  IF ~Truthy(rawText) \/ ~Truthy(commentId)
                  THEN [kind |-> "next"]
                  ELSE IF rawText.t # "string"
                  THEN Throw
                  ELSE Send(i, j, commentId)

\* ProcessChange inside a try of its own: a change whose processing throws is
\* passed over
ProcessChangeCaught(change, i, j) ==
    IF Nullish(change)
    THEN [kind |-> "next"]
    ELSE IF ~StrictEq(Prop(change, "field"), Str(COMMENTS))
    THEN [kind |-> "next"]
    ELSE LET value == Prop(change, "value") IN
         IF Nullish(value)
         THEN [kind |-> "next"]
         ELSE LET rawText == Prop(value, "text")
                  commentId == Prop(value, "comment_id")
              IN  IF ~Truthy(rawText) \/ ~Truthy(commentId)
                  THEN [kind |-> "next"]
                  ELSE IF rawText.t # "string"
                  THEN [kind |-> "next"]
                  ELSE IF KeywordFound(rawText)
                  THEN Send(i, j, commentId)
                  ELSE [kind |-> "next"]

\* the body of the inner loop for one change: what the handler does with it
ProcessChange(change, i, j) ==
    IF Nullish(change)
    THEN Throw
    ELSE IF ~StrictEq(Prop(change, "field"), Str(COMMENTS))
    THEN [kind |-> "next"]
    ELSE LET value == Prop(change, "value") IN
         IF Nullish(value)
         THEN Throw
         ELSE LET rawText == Prop(value, "text")
                  commentId == Prop(value, "comment_id")
              IN  IF ~Truthy(rawText) \/ ~Truthy(commentId)
                  THEN [kind |-> "next"]
                  ELSE IF rawText.t # "string"
                  THEN Throw
                  ELSE IF KeywordFound(rawText)
                  THEN Send(i, j, commentId)
                  ELSE [kind |-> "next"]

\* the two loops from change j of entry i of es up to the next await: the next
\* sendPrivateReply call, a thrown fault, or the end of the batch
RECURSIVE Walk(_, _, _)
Walk(es, i, j) ==
    IF i > Len(es)
    THEN End
    ELSE IF Nullish(es[i])
    THEN Throw
    ELSE LET changes == ChangesOf(es[i]) IN
         IF ~Iterable(changes)
         THEN Throw
         ELSE IF j > Len(Elements(changes))
         THEN Walk(es, i + 1, 1)
         ELSE LET r == ProcessChange(Elements(changes)[j], i, j) IN
              IF r.kind = "next" THEN Walk(es, i, j + 1) ELSE r

\* the responses POST returns
ConfigErrorResponse == NextResponse(Str(SERVER_CONFIG_ERROR), 500)
EventReceivedResponse == NextResponse(Str(EVENT_RECEIVED), 200)
NotFoundResponse == NextResponse(Str(NOT_FOUND), 404)
\* CatchResponse with the status of an unhandled fault
CatchResponse500 == NextResponse(Str(ERROR_HANDLED), 500)

\* the response of the catch clause of POST
CatchResponse == NextResponse(Str(ERROR_HANDLED), 200)

\* IsInstagram as a test that body.object is set
HasObject(b) == Truthy(Prop(b, "object"))

\* body.object === 'instagram'
IsInstagram(b) == StrictEq(Prop(b, "object"), Str(INSTAGRAM))

\* the results of Walk from change j of entry i when no sendPrivateReply is awaited
RECURSIVE Unawaited(_, _, _)
Unawaited(es, i, j) ==
    LET r == Walk(es, i, j)
    IN  IF r.kind = "send" THEN <<r>> \o Unawaited(es, r.at[1], r.at[2] + 1) ELSE <<r>>

\* Continue with sendPrivateReply called and not awaited: the loops run on and
\* issue every further outbound call at once
ContinueUnawaited(h, b, i, j) ==
    LET rs == IF Iterable(EntriesOf(b)) THEN Unawaited(Elements(EntriesOf(b)), i, j) ELSE <<Throw>>
        n == Len(rs) - 1
    IN  IF n > 0
        THEN /\ pc' = [pc EXCEPT ![h] = "fetch"]
             /\ cursor' = [cursor EXCEPT ![h] = rs[n].at]
             /\ sent' = [sent EXCEPT ![h] =
                            @ \o [k \in 1..n |-> ReplyRequest(rs[k].commentId, rs[k].at)]]
             /\ UNCHANGED response
        ELSE /\ pc' = [pc EXCEPT ![h] = "done"]
             /\ response' = [response EXCEPT ![h] =
                                IF rs[1].kind = "throw" THEN CatchResponse ELSE EventReceivedResponse]
             /\ UNCHANGED <<cursor, sent>>

\* the handler of h runs on from change j of entry i until its next await
Continue(h, b, i, j) ==
    LET r == IF Iterable(EntriesOf(b)) THEN Walk(Elements(EntriesOf(b)), i, j) ELSE Throw
    IN  CASE r.kind = "send" ->
               /\ pc' = [pc EXCEPT ![h] = "fetch"]
               /\ cursor' = [cursor EXCEPT ![h] = r.at]
               /\ sent' = [sent EXCEPT ![h] = Append(@, ReplyRequest(r.commentId, r.at))]
               /\ UNCHANGED response
          [] r.kind = "throw" ->
               /\ pc' = [pc EXCEPT ![h] = "done"]
               /\ response' = [response EXCEPT ![h] = CatchResponse]
               /\ UNCHANGED <<cursor, sent>>
          [] r.kind = "end" ->
               /\ pc' = [pc EXCEPT ![h] = "done"]
               /\ response' = [response EXCEPT ![h] = EventReceivedResponse]
               /\ UNCHANGED <<cursor, sent>>

\* POST is called with a request of body b: the credential check, up to await
\* req.json()
PostReceive(h, b) ==
    /\ request' = [request EXCEPT ![h] = b]
    /\ deliveries' = [deliveries EXCEPT ![h] = @ + 1]
    /\ IF CredentialMissing
       THEN /\ pc' = [pc EXCEPT ![h] = "done"]
            /\ response' = [response EXCEPT ![h] = ConfigErrorResponse]
       ELSE /\ pc' = [pc EXCEPT ![h] = "json"]
            /\ response' = [response EXCEPT ![h] = None]
    /\ UNCHANGED <<config, getVars, body, cursor, sent, outcomes>>

\* POST is called with a request
PostStart(h) ==
    /\ pc[h] = "idle"
    /\ \/ \E b \in PlainBodies : PostReceive(h, b)
       \/ \E o \in ObjectValues, layout \in Layouts :
             \E events \in [1..EventCount(layout) -> 1..Len(ChangeSeq)] :
                PostReceive(h, BatchBody(o, layout, events))

\* req.json() settles: the object check and the loops up to the first await
PostJson(h) ==
    /\ pc[h] = "json"
    /\ UNCHANGED <<config, getVars, request, outcomes, deliveries>>
    /\ IF request[h] = Malformed
       THEN /\ pc' = [pc EXCEPT ![h] = "done"]
            /\ response' = [response EXCEPT ![h] = CatchResponse]
            /\ UNCHANGED <<body, cursor, sent>>
       ELSE /\ body' = [body EXCEPT ![h] = request[h]]
            /\ IF Nullish(request[h])
               THEN /\ pc' = [pc EXCEPT ![h] = "done"]
                    /\ response' = [response EXCEPT ![h] = CatchResponse]
                    /\ UNCHANGED <<cursor, sent>>
               ELSE IF IsInstagram(request[h])
               THEN Continue(h, request[h], 1, 1)
               ELSE /\ pc' = [pc EXCEPT ![h] = "done"]
                    /\ response' = [response EXCEPT ![h] = NotFoundResponse]
                    /\ UNCHANGED <<cursor, sent>>

\* what response.json() of the outbound call resolves to: it rejects (not JSON),
\* null, an object with an error, an object without
DataValues ==
    {Malformed, JsonNull,
     Obj([error |-> Obj([code |-> Num(10)])]),
     Obj([message_id |-> Str(<<"m">>)])}

\* how the outbound call settled when response.json() gave data
Settled(data) ==
    CASE data = Malformed -> "not JSON"
      [] Nullish(data) -> "null"
      [] Truthy(Prop(data, "error")) -> "error object"
      [] OTHER -> "success"

\* the line sendPrivateReply logs for data
ReplyLog(data) ==
    IF data = Malformed \/ Nullish(data)
    THEN "Network Fetch Error"
    ELSE IF Truthy(Prop(data, "error"))
    THEN "Meta API Error"
    ELSE "DM Sent Successfully"

\* ReplyReturns without the try of sendPrivateReply: a failed outbound call is
\* thrown into the catch clause of POST
ReplyRethrows(h, how, logged) ==
    /\ outcomes' = [outcomes EXCEPT ![h] = Append(@, [how |-> how, logged |-> logged])]
    /\ IF logged = "Network Fetch Error"
       THEN /\ pc' = [pc EXCEPT ![h] = "done"]
            /\ response' = [response EXCEPT ![h] = CatchResponse]
            /\ UNCHANGED <<cursor, sent>>
       ELSE Continue(h, body[h], cursor[h][1], cursor[h][2] + 1)
    /\ UNCHANGED <<config, getVars, request, body, deliveries>>

\* ReplyReturns with the loop position kept in a variable of the module, shared
\* by the handlers: the loop goes on from the furthest position of a handler
\* awaiting an outbound call
ReplyReturnsShared(h, how, logged) ==
    LET waiting == {g \in Handlers : pc[g] \in {"fetch", "data"}}
        last == CHOOSE g \in waiting : \A f \in waiting :
                    \/ cursor[f][1] < cursor[g][1]
                    \/ cursor[f][1] = cursor[g][1] /\ cursor[f][2] <= cursor[g][2]
    IN  /\ outcomes' = [outcomes EXCEPT ![h] = Append(@, [how |-> how, logged |-> logged])]
        /\ Continue(h, body[h], cursor[last][1], cursor[last][2] + 1)
        /\ UNCHANGED <<config, getVars, request, body, deliveries>>

\* ReplyReturns of a sendPrivateReply that calls the Graph API again whenever it
\* answers with an error object
ReplyRetries(h, how, logged) ==
    /\ IF logged = "Meta API Error"
       THEN /\ pc' = [pc EXCEPT ![h] = "fetch"]
            /\ UNCHANGED <<cursor, sent, outcomes, response>>
       ELSE /\ outcomes' = [outcomes EXCEPT ![h] = Append(@, [how |-> how, logged |-> logged])]
            /\ Continue(h, body[h], cursor[h][1], cursor[h][2] + 1)
    /\ UNCHANGED <<config, getVars, request, body, deliveries>>

\* sendPrivateReply returns to the loop, which goes on with the next change; how is
\* the way the outbound call settled and logged the line sendPrivateReply logged
ReplyReturns(h, how, logged) ==
    /\ outcomes' = [outcomes EXCEPT ![h] = Append(@, [how |-> how, logged |-> logged])]
    /\ Continue(h, body[h], cursor[h][1], cursor[h][2] + 1)
    /\ UNCHANGED <<config, getVars, request, body, deliveries>>

\* fetch() settles: with a response, or rejected by the transport
FetchSettle(h) ==
    /\ pc[h] = "fetch"
    /\ \E ok \in BOOLEAN :
       IF ok
       THEN /\ pc' = [pc EXCEPT ![h] = "data"]
            /\ UNCHANGED <<config, getVars, request, body, cursor, sent, outcomes,
                           response, deliveries>>
       ELSE ReplyReturns(h, "transport failure", "Network Fetch Error")

\* response.json() settles
DataSettle(h) ==
    /\ pc[h] = "data"
    /\ \E data \in DataValues : ReplyReturns(h, Settled(data), ReplyLog(data))

PostNext(h) ==
    \/ PostStart(h)
    \/ PostJson(h)
    \/ FetchSettle(h)
    \/ DataSettle(h)

GetNext ==
    \E mode \in ModeValues, token \in TokenValues, challenge \in ChallengeValues :
        GET(mode, token, challenge)

\* one POST request, in request slot 1; POST never reads the verification secret,
\* which is left at its configured value
InitPost == Init /\ VERIFY_TOKEN = Str(SECRET)
Next == PostNext(1)
Spec == InitPost /\ [][Next]_vars

\* the verification endpoint
SpecGet == Init /\ [][GetNext]_vars

\* ------------------------------------------------- the texts of a comment
\* the upper-case letter of each lower-case letter
UpperOf ==
    [c \in {LowerCase[k] : k \in 1..Len(LowerCase)} |->
        UpperCase[CHOOSE k \in 1..Len(LowerCase) : LowerCase[k] = c]]

\* the keyword in every casing
Casings ==
    {[k \in 1..Len(KEYWORD) |-> IF k \in up THEN UpperOf[KEYWORD[k]] ELSE KEYWORD[k]] :
        up \in SUBSET (1..Len(KEYWORD))}

\* w with the separator sep after its first k letters
Separated(w, k, sep) == SubSeq(w, 1, k) \o sep \o SubSeq(w, k + 1, Len(w))

\* w without its k-th letter
Without(w, k) == SubSeq(w, 1, k - 1) \o SubSeq(w, k + 1, Len(w))

\* the keyword in lower case, capitalised and in upper case
PlainCasings ==
    {KEYWORD,
     [k \in 1..Len(KEYWORD) |-> IF k = 1 THEN UpperOf[KEYWORD[k]] ELSE KEYWORD[k]],
     [k \in 1..Len(KEYWORD) |-> UpperOf[KEYWORD[k]]]}

\* the words of a comment: the keyword in every casing, the keyword with its
\* letters separated by a space or a hyphen, and the keyword with a letter missing
Words ==
    Casings
    \cup {Separated(w, k, sep) : w \in PlainCasings, k \in 1..(Len(KEYWORD) - 1),
                                 sep \in {<<" ">>, <<"-">>}}
    \cup {Without(KEYWORD, k) : k \in 1..Len(KEYWORD)}

\* what precedes and what follows the word in the text
Prefixes == {<<>>, <<"x">>, <<"s","e","e"," ","t","h","e"," ">>}
Suffixes == {<<>>, <<"?">>, <<"p","i","n","g">>, <<" ","p","l","e","a","s","e">>}

\* the texts of a comment, the empty text among them
CommentTexts ==
    {<<>>} \cup {pre \o w \o suf : pre \in Prefixes, w \in Words, suf \in Suffixes}

\* the batch of one comment event with this text
CommentBatch(text) ==
    Obj([object |-> Str(INSTAGRAM),
         entry |-> Arr(<<Obj([changes |-> Arr(<<
             Obj([field |-> Str(COMMENTS),
                  value |-> Obj([text |-> Str(text), comment_id |-> Str(<<"1">>)])])>>)])>>)])

\* POST is called with the batch of one comment
PostComment(h) ==
    /\ pc[h] = "idle"
    /\ \E text \in CommentTexts : PostReceive(h, CommentBatch(text))

\* one POST request with one comment, over the texts of a comment
NextComment == PostComment(1) \/ PostJson(1) \/ FetchSettle(1) \/ DataSettle(1)
SpecComment == InitPost /\ [][NextComment]_vars

\* ------------------------------------------------------- a sample of batches
\* a 'comments' change with this text for this comment, and one without a value
CommentChange(text, id) ==
    Obj([field |-> Str(COMMENTS), value |-> Obj([text |-> text, comment_id |-> Str(id)])])
NoValueChange == Obj([field |-> Str(COMMENTS), value |-> Undefined])

\* the body with object o and one entry for each sequence of changes
Batch(o, entries) ==
    Obj([object |-> o,
         entry |-> Arr([i \in 1..Len(entries) |-> Obj([changes |-> Arr(entries[i])])])])

\* bodies with two matching comments, with a faulting change between them
TwoMatches ==
    Batch(Str(INSTAGRAM), <<<<CommentChange(TEXT_KEYWORD, <<"1">>),
                              CommentChange(TEXT_KEYWORD, <<"2">>)>>>>)
FaultBetweenMatches ==
    Batch(Str(INSTAGRAM), <<<<CommentChange(TEXT_KEYWORD, <<"1">>),
                              NoValueChange,
                              CommentChange(TEXT_KEYWORD, <<"2">>)>>>>)

ConcurrentBodies == {Malformed, TwoMatches, FaultBetweenMatches}

SampleBodies ==
    ConcurrentBodies \cup
    {Batch(Str(<<"p","a","g","e">>), <<<<CommentChange(TEXT_KEYWORD, <<"1">>)>>>>),
     Batch(Str(INSTAGRAM), <<>>),
     Batch(Str(INSTAGRAM), <<<<CommentChange(TEXT_KEYWORD, <<"1">>)>>>>),
     Batch(Str(INSTAGRAM), <<<<CommentChange(TEXT_KEYWORD, <<"1">>)>>,
                             <<CommentChange(TEXT_KEYWORD, <<"2">>)>>>>),
     Batch(Str(INSTAGRAM), <<<<CommentChange(TEXT_PLAIN, <<"1">>),
                               CommentChange(TEXT_KEYWORD, <<"2">>)>>>>)}

\* POST is called with a body of the sample
PostSample(h) ==
    /\ pc[h] = "idle"
    /\ \E b \in SampleBodies : PostReceive(h, b)

\* GET is called, with one challenge
GetSample ==
    \E mode \in ModeValues, token \in TokenValues :
        GET(mode, token, Str(<<"1","1","5","8">>))

\* GET requests and one POST request, in any order
NextMixed == GetSample \/ PostSample(1) \/ PostJson(1) \/ FetchSettle(1) \/ DataSettle(1)
SpecMixed == Init /\ [][NextMixed]_vars

\* one POST request in each slot: the handlers run concurrently, each from one
\* await to its next
PostConcurrent(h) ==
    /\ pc[h] = "idle"
    /\ \E b \in ConcurrentBodies : PostReceive(h, b)

NextConcurrent ==
    \E h \in Handlers :
        PostConcurrent(h) \/ PostJson(h) \/ FetchSettle(h) \/ DataSettle(h)
SpecConcurrent == InitPost /\ [][NextConcurrent]_vars

\* one POST request whose awaited promises all settle: req.json(), and the
\* fetch() and response.json() of every outbound call
NextSample == PostSample(1) \/ PostJson(1) \/ FetchSettle(1) \/ DataSettle(1)
SpecLive ==
    /\ InitPost
    /\ [][NextSample]_vars
    /\ WF_vars(PostJson(1))
    /\ WF_vars(FetchSettle(1))
    /\ WF_vars(DataSettle(1))

\* ------------------------------------------- batches around a middle element
\* the 'comments' changes before and after the middle: with the keyword, without
FirstChanges == {CommentChange(TEXT_KEYWORD, <<"1">>), CommentChange(TEXT_PLAIN, <<"1">>)}
LastChanges == {CommentChange(TEXT_KEYWORD, <<"2">>), CommentChange(TEXT_PLAIN, <<"2">>)}

\* an element of body.entry with these changes
Entry(changes) == Obj([changes |-> Arr(changes)])

\* the instagram bodies with change a, then any change in the middle, then change
\* c, in one entry or in two, and those with a and c in two entries around an
\* entry without change events
MiddleBodies ==
    UNION {{Obj([object |-> Str(INSTAGRAM), entry |-> Arr(<<Entry(<<a, m, c>>)>>)]),
            Obj([object |-> Str(INSTAGRAM), entry |-> Arr(<<Entry(<<a>>), Entry(<<m, c>>)>>)]),
            Obj([object |-> Str(INSTAGRAM), entry |-> Arr(<<Entry(<<a, m>>), Entry(<<c>>)>>)])} :
           a \in FirstChanges, m \in Changes, c \in LastChanges}
    \cup {Obj([object |-> Str(INSTAGRAM),
               entry |-> Arr(<<Entry(<<a>>), EmptyEntries[k], Entry(<<c>>)>>)]) :
           a \in FirstChanges, k \in 1..Len(EmptyEntries), c \in LastChanges}

\* POST is called with one of these bodies
PostMiddle(h) ==
    /\ pc[h] = "idle"
    /\ \E b \in MiddleBodies : PostReceive(h, b)

NextMiddle == PostMiddle(1) \/ PostJson(1) \/ FetchSettle(1) \/ DataSettle(1)
SpecMiddle == InitPost /\ [][NextMiddle]_vars

\* the caller of the webhook calls POST again with the same body after a response
\* other than a 2xx
Redeliver(h) ==
    /\ pc[h] = "done"
    /\ response[h].status < 200 \/ response[h].status > 299
    /\ deliveries[h] < MaxDeliveries
    /\ PostReceive(h, request[h])

\* one batch of the sample or around a middle element, and its redeliveries
NextNotified == NextSample \/ PostMiddle(1) \/ Redeliver(1)
SpecNotified == InitPost /\ [][NextNotified]_vars


\* ============================================================== properties
\* What a request body contains, read off the JSON itself.

Configured == PAGE_ACCESS_TOKEN.t = "string" /\ PAGE_ACCESS_TOKEN.v # <<>>
Responded(h) == pc[h] = "done"

\* the request body is JSON and req.json() gives an object or a number
IsBatch(b) == b.t \in {"object", "number"}
HasObjectInstagram(b) ==
    b.t = "object" /\ "object" \in DOMAIN b.v /\ b.v.object = Str(INSTAGRAM)

\* the entries of the batch, and the change events of an entry
BatchEntries(b) ==
    IF b.t = "object" /\ b.v.entry.t = "array" THEN b.v.entry.v ELSE <<>>
EntryChanges(e) ==
    IF e.t = "object" /\ e.v.changes.t = "array" THEN e.v.changes.v ELSE <<>>

\* the positions <<entry, change>> of the change events of the batch
EventPositions(b) ==
    UNION {{<<i, j>> : j \in 1..Len(EntryChanges(BatchEntries(b)[i]))} :
           i \in 1..Len(BatchEntries(b))}
EventAt(b, p) == EntryChanges(BatchEntries(b)[p[1]])[p[2]]

\* document order
Precedes(p, q) == p[1] < q[1] \/ (p[1] = q[1] /\ p[2] < q[2])

IsChangeObject(c) == c.t = "object"
IsCommentEvent(c) == IsChangeObject(c) /\ c.v.field = Str(COMMENTS)
HasValue(c) == c.v.value.t = "object"
HasText(c) == c.v.value.v.text.t # "undefined"
HasCommentId(c) == c.v.value.v.comment_id.t # "undefined"

\* a comment event whose text, lower-cased, contains the keyword and that names
\* its comment
IsMatchingComment(c) ==
    /\ IsCommentEvent(c) /\ HasValue(c) /\ HasCommentId(c)
    /\ c.v.value.v.text.t = "string"
    /\ \E k \in 0..(Len(c.v.value.v.text.v) - Len(KEYWORD)) :
          toLowerCase(SubSeq(c.v.value.v.text.v, k + 1, k + Len(KEYWORD))) = KEYWORD

\* processing this change event throws: it is null, a comment event without a
\* value, or one with a comment_id whose text is not a string
IsFaultingEvent(c) ==
    \/ c.t = "null"
    \/ IsCommentEvent(c) /\ ~HasValue(c)
    \/ IsCommentEvent(c) /\ HasValue(c) /\ HasCommentId(c) /\ c.v.value.v.text.t = "number"

\* walking this entry throws: it is null, or its changes is present and not a list
IsFaultingEntry(e) ==
    e.t = "null" \/ (e.t = "object" /\ e.v.changes.t = "number")

\* where processing the batch throws: <<i, 0>> for entry i, <<i, j>> for its change j
FaultPositions(b) ==
    {<<i, 0>> : i \in {k \in 1..Len(BatchEntries(b)) : IsFaultingEntry(BatchEntries(b)[k])}}
    \cup {p \in EventPositions(b) : IsFaultingEvent(EventAt(b, p))}

\* some step of POST throws on this request body
Faults(b) ==
    \/ b.t \in {"malformed", "null"}
    \/ HasObjectInstagram(b) /\ b.v.entry.t = "number"
    \/ HasObjectInstagram(b) /\ FaultPositions(b) # {}

\* the matching comment events of the batch
MatchingPositions(b) == {p \in EventPositions(b) : IsMatchingComment(EventAt(b, p))}

\* the positions the outbound requests of handler h answer
SentPositions(h) == {sent[h][k].at : k \in 1..Len(sent[h])}

\* handler h issued one outbound request for each position of P, in document
\* order, each the fixed reply addressed to the comment of its event
SentExactly(h, P) ==
    /\ Len(sent[h]) = Cardinality(P)
    /\ SentPositions(h) = P
    /\ \A k \in 1..Len(sent[h]) :
          /\ k > 1 => Precedes(sent[h][k - 1].at, sent[h][k].at)
          /\ sent[h][k].recipient = EventAt(request[h], sent[h][k].at).v.value.v.comment_id
          /\ sent[h][k].message = REPLY_TEXT

\* C1: with the credential configured, a request whose processing throws is
\* answered 200 'Internal Server Error Handled', a body other than
\* 'EVENT_RECEIVED'; no response of a configured handler is a 5xx
C1_FaultAnswered200 ==
    \A h \in Handlers :
        (Configured /\ Responded(h)) =>
            /\ response[h].status < 500
            /\ Faults(request[h]) =>
                  /\ response[h] = [status |-> 200, body |-> Str(ERROR_HANDLED)]
                  /\ response[h].body # Str(EVENT_RECEIVED)

\* a fault in the second change event, after a dispatch for the first
C1_Witness ==
    \E h \in Handlers :
        /\ Configured /\ Responded(h)
        /\ HasObjectInstagram(request[h])
        /\ <<1, 2>> \in FaultPositions(request[h])
        /\ Len(sent[h]) = 1
        /\ response[h].body = Str(ERROR_HANDLED)

\* the matching comment events that no fault precedes
ReachedMatches(b) ==
    LET faults == FaultPositions(b)
    IN  {p \in MatchingPositions(b) : ~\E q \in faults : Precedes(q, p)}

\* C2 as stated: every instagram batch with N matching comment events gets exactly
\* N invocations of sendPrivateReply, one per matching event
C2_AsStated ==
    \A h \in Handlers :
        (Configured /\ Responded(h) /\ HasObjectInstagram(request[h])) =>
            SentExactly(h, MatchingPositions(request[h]))

\* C2, amended: sendPrivateReply is invoked exactly once for each matching comment
\* event that no faulting entry or change event precedes in the batch, in document
\* order, each time with the fixed reply text addressed to that comment_id
C2_OncePerReachedMatch ==
    \A h \in Handlers :
        (Configured /\ Responded(h) /\ HasObjectInstagram(request[h])) =>
            SentExactly(h, ReachedMatches(request[h]))

\* two matching comment events in two entries, both answered
C2_Witness ==
    \E h \in Handlers :
        /\ Configured /\ Responded(h) /\ HasObjectInstagram(request[h])
        /\ MatchingPositions(request[h]) = {<<1, 1>>, <<2, 1>>}
        /\ Len(sent[h]) = 2
        /\ sent[h][1].recipient # sent[h][2].recipient

\* C3: without the access credential every request, whatever its body, is answered
\* 500 'Server Config Error' at once: the body is never parsed and no outbound
\* request is issued
C3_MissingCredential500 ==
    \A h \in Handlers :
        (PAGE_ACCESS_TOKEN \in {Undefined, Str(<<>>)} /\ pc[h] # "idle") =>
            /\ pc[h] = "done"
            /\ response[h] = [status |-> 500, body |-> Str(SERVER_CONFIG_ERROR)]
            /\ body[h] = None
            /\ sent[h] = <<>>

\* an instagram batch with a matching comment event, answered 500
C3_Witness ==
    \E h \in Handlers :
        /\ PAGE_ACCESS_TOKEN = Undefined
        /\ HasObjectInstagram(request[h])
        /\ MatchingPositions(request[h]) # {}
        /\ response[h].status = 500

\* C4: with the credential configured, a batch whose object is not 'instagram' is
\* answered 404 'Not Found' and no outbound request is issued for it
C4_OtherObject404 ==
    \A h \in Handlers :
        (Configured /\ pc[h] # "idle" /\ IsBatch(request[h])
           /\ ~HasObjectInstagram(request[h])) =>
            /\ sent[h] = <<>>
            /\ Responded(h) => response[h] = [status |-> 404, body |-> Str(NOT_FOUND)]

\* a batch of another object with a matching comment event, answered 404
C4_Witness ==
    \E h \in Handlers :
        /\ Configured /\ Responded(h)
        /\ request[h].t = "object" /\ ~HasObjectInstagram(request[h])
        /\ MatchingPositions(request[h]) # {}
        /\ response[h].status = 404

\* a comment event that lacks its text or its comment_id
IsIncompleteComment(c) ==
    IsCommentEvent(c) /\ HasValue(c) /\ (~HasText(c) \/ ~HasCommentId(c))

\* a change event of another field than 'comments'
IsOtherField(c) == IsChangeObject(c) /\ c.v.field # Str(COMMENTS)

\* the change event at p is passed over by handler h: no outbound request answers
\* it, the matching comment events after it that no fault precedes are answered,
\* and a batch without a faulting entry or event is answered 'EVENT_RECEIVED'
PassedOver(h, p) ==
    /\ p \notin SentPositions(h)
    /\ Responded(h) =>
          /\ \A m \in ReachedMatches(request[h]) : Precedes(p, m) => m \in SentPositions(h)
          /\ ~Faults(request[h]) =>
                response[h] = [status |-> 200, body |-> Str(EVENT_RECEIVED)]

\* C5: a comment event without text or without comment_id gets no dispatch and
\* raises no fault, and the events after it are still processed
C5_IncompleteCommentSkipped ==
    \A h \in Handlers :
        (Configured /\ HasObjectInstagram(request[h])) =>
            \A p \in EventPositions(request[h]) :
                IsIncompleteComment(EventAt(request[h], p)) => PassedOver(h, p)

\* a comment event with a text that is no string and no comment_id, then a matching
\* comment event that is answered
C5_Witness ==
    \E h \in Handlers :
        /\ Configured /\ Responded(h) /\ HasObjectInstagram(request[h])
        /\ MatchingPositions(request[h]) = {<<1, 2>>}
        /\ IsIncompleteComment(EventAt(request[h], <<1, 1>>))
        /\ EventAt(request[h], <<1, 1>>).v.value.v.text = Num(5)
        /\ SentPositions(h) = {<<1, 2>>}
        /\ response[h].body = Str(EVENT_RECEIVED)

\* C6: a change event of another field gets no dispatch, whatever its value, and
\* the events after it are still processed
C6_OtherFieldSkipped ==
    \A h \in Handlers :
        (Configured /\ HasObjectInstagram(request[h])) =>
            \A p \in EventPositions(request[h]) :
                IsOtherField(EventAt(request[h], p)) => PassedOver(h, p)

\* a change event of another field whose value is that of a matching comment, then
\* a matching comment event that is answered
C6_Witness ==
    \E h \in Handlers :
        /\ Configured /\ Responded(h) /\ HasObjectInstagram(request[h])
        /\ MatchingPositions(request[h]) = {<<1, 2>>}
        /\ IsOtherField(EventAt(request[h], <<1, 1>>))
        /\ EventAt(request[h], <<1, 1>>).v.value.t = "object"
        /\ SentPositions(h) = {<<1, 2>>}
        /\ response[h].body = Str(EVENT_RECEIVED)

\* entry i of the batch has no changes field
LacksChanges(b, i) ==
    BatchEntries(b)[i].t = "object" /\ BatchEntries(b)[i].v.changes.t = "undefined"

\* C7: an instagram batch without entries, or whose entries all lack changes, is
\* answered 200 'EVENT_RECEIVED' without a dispatch; an entry that lacks changes
\* does not stop the entries after it
C7_NoEntriesNoChanges ==
    \A h \in Handlers :
        (Configured /\ Responded(h) /\ HasObjectInstagram(request[h])) =>
            /\ (\/ request[h].v.entry.t = "undefined"
                \/ /\ request[h].v.entry.t = "array"
                   /\ \A i \in 1..Len(BatchEntries(request[h])) : LacksChanges(request[h], i))
               => /\ response[h] = [status |-> 200, body |-> Str(EVENT_RECEIVED)]
                  /\ sent[h] = <<>>
            /\ \A i \in 1..Len(BatchEntries(request[h])) :
                  LacksChanges(request[h], i) =>
                      /\ \A m \in ReachedMatches(request[h]) :
                            m[1] > i => m \in SentPositions(h)
                      /\ ~Faults(request[h]) =>
                            response[h] = [status |-> 200, body |-> Str(EVENT_RECEIVED)]

\* an entry without changes, then an entry with a matching comment event that is
\* answered
C7_Witness ==
    \E h \in Handlers :
        /\ Configured /\ Responded(h) /\ HasObjectInstagram(request[h])
        /\ Len(BatchEntries(request[h])) = 2
        /\ LacksChanges(request[h], 1)
        /\ SentPositions(h) = {<<2, 1>>}
        /\ response[h].body = Str(EVENT_RECEIVED)

\* C8: GET answers 200 with the challenge as its body exactly when hub.mode is
\* 'subscribe' and hub.verify_token is the configured secret, and 403 'Forbidden'
\* otherwise
C8_VerifiedIffModeAndToken ==
    getReq # None =>
        LET ok == getReq.mode = Str(SUBSCRIBE) /\ getReq.token = VERIFY_TOKEN
        IN  /\ (getResp.status = 200 /\ getResp.body = getReq.challenge) <=> ok
            /\ ~ok => /\ getResp = [status |-> 403, body |-> Str(FORBIDDEN)]
                      /\ getReq.challenge # Str(FORBIDDEN) => getResp.body # getReq.challenge

\* a verified request, answered with its challenge
C8_Witness ==
    /\ getReq # None
    /\ getReq.token = Str(SECRET)
    /\ getReq.challenge.t = "string"
    /\ getResp = [status |-> 200, body |-> getReq.challenge]

\* C9: without a configured verification secret every GET is answered 403, whatever
\* its token, a missing and an empty one included
C9_NoSecretFailsClosed ==
    (VERIFY_TOKEN = Undefined /\ getReq # None) =>
        /\ getResp.status = 403
        /\ getResp.body = Str(FORBIDDEN)

\* a subscribe request without a token, refused
C9_Witness ==
    /\ VERIFY_TOKEN = Undefined
    /\ getReq # None
    /\ getReq.mode = Str(SUBSCRIBE)
    /\ getReq.token = JsonNull
    /\ getResp.status = 403

\* C10: however an outbound call settles, sendPrivateReply returns: every call
\* issued has settled when the handler answers, the matching comment events after
\* it are still answered, and the response stays 200 'EVENT_RECEIVED'
C10_OutcomeContained ==
    \A h \in Handlers :
        (Configured /\ HasObjectInstagram(request[h])) =>
            /\ Len(outcomes[h]) = Len(sent[h]) - (IF pc[h] \in {"fetch", "data"} THEN 1 ELSE 0)
            /\ Responded(h) =>
                  /\ ReachedMatches(request[h]) \subseteq SentPositions(h)
                  /\ ~Faults(request[h]) =>
                        response[h] = [status |-> 200, body |-> Str(EVENT_RECEIVED)]

\* a transport failure, then a response that is not JSON: both comments answered
C10_Witness ==
    \E h \in Handlers :
        /\ Configured /\ Responded(h) /\ HasObjectInstagram(request[h])
        /\ Len(outcomes[h]) = 2
        /\ outcomes[h][1].how = "transport failure"
        /\ outcomes[h][2].how = "not JSON"
        /\ Len(sent[h]) = 2
        /\ response[h].body = Str(EVENT_RECEIVED)

\* the text of the one comment of the batch of handler h
CommentText(h) == EventAt(request[h], <<1, 1>>).v.value.v.text.v

\* the positions k at which w occurs in s as a contiguous run of letters
Occurrences(s, w) == {k \in 0..(Len(s) - Len(w)) : SubSeq(s, k + 1, k + Len(w)) = w}

\* C11: a comment event with text and comment_id is dispatched exactly when its
\* text, lower-cased, contains 'roadmap' as a contiguous substring: a text that
\* contains the keyword in any casing is dispatched, inside a longer word too, and
\* a text that contains it only with its letters separated is not
C11_DispatchedIffContainsKeyword ==
    \A h \in Handlers :
        (Configured /\ Responded(h) /\ HasObjectInstagram(request[h])
           /\ EventPositions(request[h]) = {<<1, 1>>}
           /\ IsCommentEvent(EventAt(request[h], <<1, 1>>))
           /\ HasValue(EventAt(request[h], <<1, 1>>))
           /\ EventAt(request[h], <<1, 1>>).v.value.v.text.t = "string"
           /\ HasCommentId(EventAt(request[h], <<1, 1>>))) =>
            /\ Len(sent[h]) <= 1
            /\ Len(sent[h]) = 1 <=>
                  Occurrences(toLowerCase(CommentText(h)), KEYWORD) # {}
            /\ (\E c \in Casings : Occurrences(CommentText(h), c) # {}) =>
                  Len(sent[h]) = 1
            /\ (\A c \in Casings : Occurrences(CommentText(h), c) = {}) =>
                  sent[h] = <<>>

\* 'see the ROADMAPping', dispatched
C11_Witness ==
    \E h \in Handlers :
        /\ Configured /\ Responded(h) /\ HasObjectInstagram(request[h])
        /\ EventPositions(request[h]) = {<<1, 1>>}
        /\ IsMatchingComment(EventAt(request[h], <<1, 1>>))
        /\ CommentText(h) = <<"s","e","e"," ","t","h","e"," ",
                              "R","O","A","D","M","A","P","p","i","n","g">>
        /\ Len(sent[h]) = 1

\* 'Road map please', not dispatched
C11_WitnessSeparated ==
    \E h \in Handlers :
        /\ Configured /\ Responded(h) /\ HasObjectInstagram(request[h])
        /\ EventPositions(request[h]) = {<<1, 1>>}
        /\ IsCommentEvent(EventAt(request[h], <<1, 1>>))
        /\ HasValue(EventAt(request[h], <<1, 1>>))
        /\ CommentText(h) = <<"R","o","a","d"," ","m","a","p"," ","p","l","e","a","s","e">>
        /\ sent[h] = <<>>
        /\ response[h].body = Str(EVENT_RECEIVED)

\* C12: GET changes nothing of the POST handlers or of the configuration and so
\* issues no outbound request, and a GET request equal to the first one of the
\* run gets the response the first one got, whatever GET and POST requests were
\* handled in between
C12_GetRepeatable ==
    /\ [](getFirst # None /\ getReq = getFirst.req => getResp = getFirst.resp)
    /\ [][getVars' # getVars => UNCHANGED <<config, postVars>>]_vars

\* the verification request answered for the third time, after a POST request
\* that dispatched twice
C12_Witness ==
    /\ getCount >= 3
    /\ getReq = getFirst.req
    /\ getResp = [status |-> 200, body |-> Str(<<"1","1","5","8">>)]
    /\ Responded(1) /\ Len(sent[1]) = 2

\* the outbound calls of handler h that have not settled
InFlight(h) == Len(sent[h]) - Len(outcomes[h])

\* C13: a POST handler has at most one outbound call in flight, and has one
\* exactly while it awaits fetch() or response.json(); its outbound requests were
\* issued in document order, each after every earlier one had settled; and it
\* has responded only when every outbound call it issued has settled
C13_DispatchesSequential ==
    \A h \in Handlers :
        /\ InFlight(h) \in {0, 1}
        /\ InFlight(h) = 1 <=> pc[h] \in {"fetch", "data"}
        /\ \A k \in 1..Len(sent[h]), l \in 1..Len(sent[h]) :
              k < l => Precedes(sent[h][k].at, sent[h][l].at)
        /\ Responded(h) => InFlight(h) = 0
        /\ response[h] # None => Responded(h)

\* the outbound call for the second of two matching comment events is in flight
\* after the call for the first one settled
C13_Witness ==
    \E h \in Handlers :
        /\ Cardinality(MatchingPositions(request[h])) = 2
        /\ Len(sent[h]) = 2 /\ Len(outcomes[h]) = 1
        /\ pc[h] = "data"
        /\ response[h] = None

\* what belongs to the request in slot h
Slot(h) == <<pc[h], request[h], body[h], cursor[h], sent[h], outcomes[h], response[h]>>

\* the response to this request body of a configured handler
ResponseAlone(b) ==
    IF Faults(b)
    THEN [status |-> 200, body |-> Str(ERROR_HANDLED)]
    ELSE IF HasObjectInstagram(b)
    THEN [status |-> 200, body |-> Str(EVENT_RECEIVED)]
    ELSE [status |-> 404, body |-> Str(NOT_FOUND)]

\* handler h is where a handler running alone on its request body is after as many
\* settled outbound calls: its outbound requests are, in document order, those for
\* the first matching events of the body that no fault precedes, one more than have
\* settled while it awaits, all of them once it has responded
AsWhenAlone(h) ==
    LET b == request[h]
        reached == IF HasObjectInstagram(b) THEN ReachedMatches(b) ELSE {}
    IN  /\ Len(sent[h]) = Cardinality(SentPositions(h))
        /\ SentPositions(h) \subseteq reached
        /\ \A p \in reached, q \in SentPositions(h) : Precedes(p, q) => p \in SentPositions(h)
        /\ \A k \in 1..Len(sent[h]) :
              /\ k > 1 => Precedes(sent[h][k - 1].at, sent[h][k].at)
              /\ sent[h][k].recipient = EventAt(b, sent[h][k].at).v.value.v.comment_id
              /\ sent[h][k].access_token = PAGE_ACCESS_TOKEN
              /\ sent[h][k].message = REPLY_TEXT
        /\ pc[h] \in {"fetch", "data"} => Len(sent[h]) = Len(outcomes[h]) + 1
        /\ Responded(h) =>
              /\ Len(outcomes[h]) = Len(sent[h])
              /\ IF Configured
                 THEN SentPositions(h) = reached /\ response[h] = ResponseAlone(b)
                 ELSE /\ sent[h] = <<>>
                      /\ response[h] = [status |-> 500, body |-> Str(SERVER_CONFIG_ERROR)]

\* C14: under every interleaving of the POST handlers, each handler issues the
\* outbound requests and gives the response of a handler running alone on its
\* request body; a step of one handler changes nothing of another, and no step
\* writes VERIFY_TOKEN or PAGE_ACCESS_TOKEN
C14_HandlersIndependent ==
    /\ [](\A h \in Handlers : pc[h] # "idle" => AsWhenAlone(h))
    /\ [][/\ config' = config
          /\ \A h \in Handlers, g \in Handlers :
                (h # g /\ Slot(h)' # Slot(h)) => Slot(g)' = Slot(g)]_vars

\* two handlers await outbound calls at the same time, one for its second
\* matching comment event and one for its first
C14_Witness ==
    /\ request[1] = TwoMatches /\ pc[1] = "data" /\ Len(sent[1]) = 2
    /\ request[2] = FaultBetweenMatches /\ pc[2] = "fetch" /\ Len(sent[2]) = 1

\* the four responses of POST
PostResponses ==
    {[status |-> 500, body |-> Str(SERVER_CONFIG_ERROR)],
     [status |-> 200, body |-> Str(EVENT_RECEIVED)],
     [status |-> 404, body |-> Str(NOT_FOUND)],
     [status |-> 200, body |-> Str(ERROR_HANDLED)]}

\* C15: when req.json() and every outbound call settle, a POST handler that has
\* started eventually responds; its response is one of the four, is sent once and
\* never replaced, and is not sent while an outbound call of the handler is
\* unsettled
C15_RespondsExactlyOnce ==
    /\ \A h \in Handlers : (pc[h] # "idle") ~> Responded(h)
    /\ [](\A h \in Handlers :
            /\ Responded(h) <=> response[h] # None
            /\ Responded(h) => response[h] \in PostResponses
            /\ InFlight(h) > 0 => response[h] = None)
    /\ [][\A h \in Handlers : response[h] # None => response'[h] = response[h]]_vars

\* the handler responded after two outbound calls, the first of which failed in
\* the transport
C15_Witness ==
    /\ Responded(1)
    /\ Len(outcomes[1]) = 2
    /\ outcomes[1][1].how = "transport failure"
    /\ response[1] = [status |-> 200, body |-> Str(EVENT_RECEIVED)]

\* the first position, in document order, where processing the batch throws
FirstFault(b) ==
    CHOOSE f \in FaultPositions(b) : \A g \in FaultPositions(b) : ~Precedes(g, f)

\* C16: when processing an entry or change of an instagram batch throws, the
\* outbound requests of the handler are those for the matching comment events
\* before the first fault, each issued and settled; none answers an event after
\* it; and the response is 200 'Internal Server Error Handled'
C16_FaultKeepsEarlierStopsLater ==
    \A h \in Handlers :
        (Configured /\ Responded(h) /\ HasObjectInstagram(request[h])
           /\ FaultPositions(request[h]) # {}) =>
            LET f == FirstFault(request[h])
            IN  /\ SentPositions(h) =
                      {p \in MatchingPositions(request[h]) : Precedes(p, f)}
                /\ Len(sent[h]) = Cardinality(SentPositions(h))
                /\ Len(outcomes[h]) = Len(sent[h])
                /\ \A q \in SentPositions(h) : ~Precedes(f, q)
                /\ response[h] = [status |-> 200, body |-> Str(ERROR_HANDLED)]

\* a 'comments' change without a value between two matching comment events: the
\* first was answered, the second was not
C16_Witness ==
    \E h \in Handlers :
        /\ Configured /\ Responded(h)
        /\ HasObjectInstagram(request[h])
        /\ FaultPositions(request[h]) = {<<1, 2>>}
        /\ MatchingPositions(request[h]) = {<<1, 1>>, <<1, 3>>}
        /\ SentPositions(h) = {<<1, 1>>}
        /\ Len(outcomes[h]) = 1
        /\ response[h].body = Str(ERROR_HANDLED)

\* C17: a POST handler that issued an outbound request answers with status 200;
\* so when the caller delivers a batch again only after a response other than a
\* 2xx, a batch delivered again has caused no outbound request, and over all
\* deliveries of a batch no change event is answered twice
C17_DispatchedAnswered200 ==
    \A h \in Handlers :
        /\ (Responded(h) /\ sent[h] # <<>>) => response[h].status = 200
        /\ deliveries[h] > 1 => sent[h] = <<>>
        /\ \A k \in 1..Len(sent[h]), l \in 1..Len(sent[h]) :
              k # l => sent[h][k].at # sent[h][l].at

\* a batch that caused an outbound request and then a fault: answered 200 and
\* delivered once
C17_Witness ==
    \E h \in Handlers :
        /\ Responded(h)
        /\ Len(sent[h]) = 1
        /\ FaultPositions(request[h]) # {}
        /\ response[h] = [status |-> 200, body |-> Str(ERROR_HANDLED)]
        /\ deliveries[h] = 1
        /\ ~ENABLED Redeliver(h)

=============================================================================
